---- MODULE Spec2Model ----
(***************************************************************************)
(* Conversation page of the acupressure mini-program                       *)
(* (miniprogram/pages/index/index.js).  The page's data fields are the     *)
(* variables; every handler and every network callback is one action that  *)
(* runs to completion (JavaScript runs one task at a time, and an async    *)
(* function gives up control only at an await).  A suspended invocation of *)
(* sendMessage is an element of tasks, holding its local variables.        *)
(*                                                                         *)
(* Text is a sequence of tokens (characters for drafts, whole phrases for   *)
(* fixed strings); the empty string is <<>>.  An absent field of a JSON     *)
(* object is a field missing from the record's DOMAIN.                      *)
(***************************************************************************)
EXTENDS Integers, Sequences, FiniteSets, TLC

VARIABLES messages, inputValue, sending, scrollToView, messageId, tasks, event

(* Detail page (miniprogram/pages/detail/detail.js): its data fields acupoint *)
(* and images, the navigation bar title and the toast it sets, and where its *)
(* loadAcupoint stands.                                                      *)
VARIABLES acupoint, images, navigationBarTitle, toast, detailTask

indexVars == <<messages, inputValue, sending, scrollToView, messageId, tasks>>

detailVars == <<acupoint, images, navigationBarTitle, toast, detailTask>>

vars == <<indexVars, detailVars, event>>

(* ------------------------------ bounds -------------------------------- *)

\* Submissions accepted in one behaviour.
MaxSubmissions == 2

\* Submissions accepted in one behaviour of the fair specification.
MaxFairSubmissions == 1

\* Length of the longest acupoint list a diagnosis response carries.
MaxPoints == 2

\* Number of image paths the image service holds for the first acupoint.
MaxImages == 7

(* ----------------------------- constants ------------------------------ *)

\* slice(0, 6)
ImageCap == 6

\* res.statusCode === 200
StatusOK == 200

\* app.globalData.apiBase
apiBase == "apiBase"

\* JavaScript's undefined, as a value and as rendered by a template literal
Undefined == <<"undefined">>

FallbackText == <<"Sorry, no matching symptom was found. Try keywords: headache, insomnia, anxiety, back pain, neck.">>

NetworkErrorText == <<"Cannot connect to the server, please check the network connection.">>

TitlePrefix == <<"For [">>

TitleSuffix == <<"] the following acupoints are recommended:">>

(* --------------------------- pure functions --------------------------- *)

Whitespace == {" ", "\n"}

RECURSIVE TrimStart(_)
TrimStart(s) ==
  IF s # <<>> /\ Head(s) \in Whitespace THEN TrimStart(Tail(s)) ELSE s

RECURSIVE TrimEnd(_)
TrimEnd(s) ==
  IF s # <<>> /\ s[Len(s)] \in Whitespace
  THEN TrimEnd(SubSeq(s, 1, Len(s) - 1))
  ELSE s

\* mutant: trimStart instead of trim
TrimOnlyStart(s) == TrimStart(s)

\* String.prototype.trim
Trim(s) == TrimEnd(TrimStart(s))

Has(obj, f) == f \in DOMAIN obj

\* obj.f, undefined when the field is absent
Get(obj, f) == IF Has(obj, f) THEN obj[f] ELSE Undefined

\* obj.f || [] for a list, obj.f || '' for a string
GetOrEmpty(obj, f) == IF Has(obj, f) THEN obj[f] ELSE <<>>

\* m.type, undefined for a user message
TypeOf(m) == IF Has(m, "type") THEN m.type ELSE "undefined"

\* mutant: the filter keeps the user messages only
WithoutLoadingDropsAssistant(msgs) == SelectSeq(msgs, LAMBDA m : m.isUser)

\* mutant: the filter is dropped
WithoutLoadingKeepsAll(msgs) == msgs

\* messages.filter(m => m.type !== 'loading')
WithoutLoading(msgs) == SelectSeq(msgs, LAMBDA m : TypeOf(m) # "loading")

\* mutant: the cap is forgotten
SliceKeepsAll(arr, n) == arr

\* arr.slice(0, n)
Slice(arr, n) == SubSeq(arr, 1, IF Len(arr) < n THEN Len(arr) ELSE n)

\* img => `${apiBase}${img}`
ImageUrl(img) == <<apiBase>> \o img

\* (imgRes.images || []).slice(0, 6).map(img => `${apiBase}${img}`)
ImageUrls(imgRes) ==
  LET kept == Slice(GetOrEmpty(imgRes, "images"), ImageCap)
  IN  [k \in 1..Len(kept) |-> ImageUrl(kept[k])]

\* { ...point, images }
WithImages(point, imgs) ==
  [f \in DOMAIN point \cup {"images"} |->
     IF f = "images" THEN imgs ELSE point[f]]

(* ------------------------------- inputs ------------------------------- *)

\* what the user can type: nothing, blanks only, a padded word
Drafts == { <<>>, <<" ", " ">>, <<" ", "a", " ">> }

\* data.quickSymptoms[*].query (the first of the six presets)
QuickQueries == { <<"wo tou tong">> }

Codes == <<"LI4", "GB20", "PC6", "HT7">>

Point(k) ==
  [code |-> Codes[((k - 1) % Len(Codes)) + 1], name |-> <<"point", k>>]

PointList(n) == [k \in 1..n |-> Point(k)]

\* the image paths the service holds for a code
ServerImages(code) ==
  LET n == IF code = Codes[1] THEN MaxImages ELSE 2
  IN  [k \in 1..n |-> <<"/images/", code, n + 1 - k>>]

\* bodies of GET /images/{code}
ImageData(code) ==
  { [images |-> ServerImages(code)], [error |-> <<"not found">>] }

\* bodies of POST /chat
ChatData ==
  { [success |-> FALSE],
    [success |-> FALSE, message |-> <<"no match">>],
    [success |-> FALSE, message |-> <<>>],
    [success |-> TRUE, mode |-> "llm", llm_response |-> <<"text">>,
     recommended_acupoints |-> PointList(MaxPoints)],
    [success |-> TRUE, mode |-> "llm"],
    [success |-> TRUE,
     diagnosis |-> [symptom |-> <<"headache">>, acupoints |-> PointList(1),
                    disclaimer |-> <<"D">>]],
    [success |-> TRUE, mode |-> "keyword",
     diagnosis |-> [symptom |-> <<"insomnia">>]],
    [success |-> TRUE, mode |-> "keyword"] }

\* res.statusCode: 200, or the 500 of a failing service
StatusCodes == {StatusOK, 500}

(* ---------------------------- initial state --------------------------- *)

Init ==
  /\ messages = <<>>
  /\ inputValue = <<>>
  /\ sending = FALSE
  /\ scrollToView = <<"bottom">>
  /\ messageId = 0
  /\ tasks = <<>>
  /\ event = [name |-> "onLoad"]
  /\ acupoint = <<>>
  /\ images = <<>>
  /\ navigationBarTitle = <<>>
  /\ toast = <<>>
  /\ detailTask = [pc |-> "onLoad"]

(* ------------------------------ messages ------------------------------ *)

UserMessage(id, content) == [id |-> id, isUser |-> TRUE, content |-> content]

LoadingMessage(id) == [id |-> id, isUser |-> FALSE, type |-> "loading"]

TextMessage(id, content) ==
  [id |-> id, isUser |-> FALSE, type |-> "text", content |-> content]

DiagnosisMessage(id) ==
  [id |-> id, isUser |-> FALSE, type |-> "diagnosis", title |-> <<>>,
   llmResponse |-> <<>>, acupoints |-> <<>>, disclaimer |-> <<>>]

\* mutant: the fallback is forgotten
SoftFailureContentNoFallback(res) == Get(res, "message")

\* res.message || <fallback>
SoftFailureContent(res) ==
  IF GetOrEmpty(res, "message") # <<>> THEN res.message ELSE FallbackText

\* mutant: any mode selects the free-text branch
IsLlmAnyMode(res) == Has(res, "mode")

\* res.mode === 'llm'
IsLlm(res) == Has(res, "mode") /\ res.mode = "llm"

\* !res.success
NotSuccess(res) == ~(Has(res, "success") /\ res.success)

\* the diagnosis message as built before the images are loaded
BuildDiagnosis(id, res) ==
  IF IsLlm(res)
  THEN [DiagnosisMessage(id) EXCEPT !.llmResponse = Get(res, "llm_response")]
  ELSE [DiagnosisMessage(id) EXCEPT
          !.title = TitlePrefix \o Get(res.diagnosis, "symptom") \o TitleSuffix]

\* the list handed to loadAcupointImages
PointsOf(res) ==
  IF IsLlm(res)
  THEN GetOrEmpty(res, "recommended_acupoints")
  ELSE GetOrEmpty(res.diagnosis, "acupoints")

\* the diagnosis message once loadAcupointImages has returned
CompleteDiagnosis(msg, res, results) ==
  IF IsLlm(res)
  THEN [msg EXCEPT !.acupoints = results]
  ELSE [msg EXCEPT !.acupoints = results,
                   !.disclaimer = GetOrEmpty(res.diagnosis, "disclaimer")]

(* --------------------------- suspended calls -------------------------- *)

Remove(seq, i) == SubSeq(seq, 1, i - 1) \o SubSeq(seq, i + 1, Len(seq))

\* sendMessage suspended in `await this.callChatAPI(message)`
AwaitingChat(message) == [pc |-> "callChatAPI", message |-> message]

\* sendMessage suspended, through loadAcupointImages, in
\* `await this.getImages(point.code)` for acupoints[Len(results) + 1]
AwaitingImages(message, res, local, msg, acupoints, results) ==
  [pc |-> "getImages", message |-> message, res |-> res, messages |-> local,
   diagnosisMsg |-> msg, acupoints |-> acupoints, results |-> results]

\* /chat requests in flight
ChatInFlight == Len(SelectSeq(tasks, LAMBDA t : t.pc = "callChatAPI"))

\* /images requests in flight
ImagesInFlight == Len(SelectSeq(tasks, LAMBDA t : t.pc = "getImages"))

\* user messages in the log
Submissions == Len(SelectSeq(messages, LAMBDA m : m.isUser))

(* ------------------------------ handlers ------------------------------ *)

\* mutant: the guard forgets the empty draft
RejectedOnlyWhenSending(message) == sending

\* mutant: the guard forgets the pending submission
RejectedOnlyWhenEmpty(message) == message = <<>>

\* if (!message || this.data.sending) return;
Rejected(message) == message = <<>> \/ sending

\* sendMessage up to its first await, this.data.inputValue being draft
SendMessageCall(draft) ==
  LET message == Trim(draft)
      msgId == messageId + 1
  IN  IF Rejected(message)
      THEN /\ inputValue' = draft
           /\ UNCHANGED <<messages, sending, scrollToView, messageId, tasks>>
      ELSE /\ Submissions < MaxSubmissions
           /\ messages' = messages \o
                <<UserMessage(msgId, message), LoadingMessage(msgId + 1)>>
           /\ inputValue' = <<>>
           /\ sending' = TRUE
           /\ messageId' = msgId + 1
           /\ scrollToView' = <<"msg-", msgId + 1>>
           /\ tasks' = Append(tasks, AwaitingChat(message))

OnInputChange ==
  \E value \in Drafts :
    /\ inputValue' = value
    /\ event' = [name |-> "onInputChange", value |-> value]
    /\ UNCHANGED <<messages, sending, scrollToView, messageId, tasks>>

\* mutant: sendMessage is called without setData({ inputValue: query })
OnQuickTapSkipsSetData ==
  \E query \in QuickQueries :
    /\ SendMessageCall(inputValue)
    /\ event' = [name |-> "onQuickTap", query |-> query]

OnQuickTap ==
  \E query \in QuickQueries :
    /\ SendMessageCall(query)
    /\ event' = [name |-> "onQuickTap", query |-> query]

SendMessage ==
  /\ SendMessageCall(inputValue)
  /\ event' = [name |-> "sendMessage"]

(* ---------------------- sendMessage after an await -------------------- *)

\* mutant: the draft is cleared when the result arrives
SetResultClearsInput(i, msgs) ==
  /\ messages' = msgs
  /\ messageId' = messageId + 1
  /\ scrollToView' = <<"msg-", messageId + 1>>
  /\ sending' = FALSE
  /\ tasks' = Remove(tasks, i)
  /\ inputValue' = <<>>

\* mutant: setData({ sending: false }) is missing after the try block
SetResultKeepsSending(i, msgs) ==
  /\ messages' = msgs
  /\ messageId' = messageId + 1
  /\ scrollToView' = <<"msg-", messageId + 1>>
  /\ tasks' = Remove(tasks, i)
  /\ UNCHANGED <<inputValue, sending>>

\* the try block's setData({ messages, messageId, scrollToView }) followed by
\* setData({ sending: false }); call i ends
SetResult(i, msgs) ==
  /\ messages' = msgs
  /\ messageId' = messageId + 1
  /\ scrollToView' = <<"msg-", messageId + 1>>
  /\ sending' = FALSE
  /\ tasks' = Remove(tasks, i)
  /\ UNCHANGED inputValue

\* mutant: the catch block reuses the loading message's id
CatchErrorReusesId(i) ==
  /\ messages' = Append(WithoutLoading(messages),
                        TextMessage(messageId, NetworkErrorText))
  /\ sending' = FALSE
  /\ tasks' = Remove(tasks, i)
  /\ UNCHANGED <<inputValue, scrollToView, messageId>>

\* mutant: the catch block appends to the unfiltered log
CatchErrorKeepsLoading(i) ==
  /\ messages' = Append(messages, TextMessage(messageId + 1, NetworkErrorText))
  /\ messageId' = messageId + 1
  /\ sending' = FALSE
  /\ tasks' = Remove(tasks, i)
  /\ UNCHANGED <<inputValue, scrollToView>>

\* mutant: the catch block returns before setData({ sending: false })
CatchErrorKeepsSending(i) ==
  /\ messages' = Append(WithoutLoading(messages),
                        TextMessage(messageId + 1, NetworkErrorText))
  /\ messageId' = messageId + 1
  /\ tasks' = Remove(tasks, i)
  /\ UNCHANGED <<inputValue, scrollToView, sending>>

\* the catch block followed by setData({ sending: false }); call i ends
CatchError(i) ==
  /\ messages' = Append(WithoutLoading(messages),
                        TextMessage(messageId + 1, NetworkErrorText))
  /\ messageId' = messageId + 1
  /\ sending' = FALSE
  /\ tasks' = Remove(tasks, i)
  /\ UNCHANGED <<inputValue, scrollToView>>

\* mutant: the diagnosis message is never pushed
PushDiagnosisDropsMessage(i, res, local, msg, results) == SetResult(i, local)

\* messages.push(diagnosisMsg) once loadAcupointImages has returned results
PushDiagnosis(i, res, local, msg, results) ==
  SetResult(i, Append(local, CompleteDiagnosis(msg, res, results)))

\* loadAcupointImages(acupoints) with results collected so far: return when
\* the loop is over, else suspend in getImages for the next point
LoadAcupointImages(i, res, local, msg, acupoints, results) ==
  IF Len(results) = Len(acupoints)
  THEN PushDiagnosis(i, res, local, msg, results)
  ELSE /\ tasks' = [tasks EXCEPT ![i] =
                      AwaitingImages(@.message, res, local, msg, acupoints, results)]
       /\ UNCHANGED <<messages, inputValue, sending, scrollToView, messageId>>

\* `res.diagnosis.symptom` throws when the keyword branch finds no diagnosis
Throws(res) == ~IsLlm(res) /\ ~Has(res, "diagnosis")

\* callChatAPI resolved with res: the try block from the filter on
ChatResolved(i, res) ==
  LET local == WithoutLoading(messages)
  IN  IF NotSuccess(res)
      THEN SetResult(i, Append(local,
                       TextMessage(messageId + 1, SoftFailureContent(res))))
      ELSE IF Throws(res)
      THEN CatchError(i)
      ELSE LoadAcupointImages(i, res, local,
                              BuildDiagnosis(messageId + 1, res),
                              PointsOf(res), <<>>)

\* mutant: results.unshift instead of results.push
ImagesResolvedPrepends(i, imgRes) ==
  LET t == tasks[i]
      point == t.acupoints[Len(t.results) + 1]
  IN  LoadAcupointImages(i, t.res, t.messages, t.diagnosisMsg, t.acupoints,
                         <<WithImages(point, ImageUrls(imgRes))>> \o t.results)

\* getImages resolved with imgRes for the point the loop is at
ImagesResolved(i, imgRes) ==
  LET t == tasks[i]
      point == t.acupoints[Len(t.results) + 1]
  IN  LoadAcupointImages(i, t.res, t.messages, t.diagnosisMsg, t.acupoints,
                         Append(t.results, WithImages(point, ImageUrls(imgRes))))

(* -------------------------- network callbacks ------------------------- *)

ErrorBody == [error |-> <<"server error">>]

\* what getImages resolves with when the fetch failed
NoImages == [images |-> <<>>]

\* mutant: the status check is forgotten, every answer is resolved
ChatSuccessIgnoresStatus ==
  \E i \in 1..Len(tasks), statusCode \in StatusCodes :
    \E data \in (IF statusCode = StatusOK THEN ChatData ELSE {ErrorBody}) :
      /\ tasks[i].pc = "callChatAPI"
      /\ ChatResolved(i, data)
      /\ event' = [name |-> "callChatAPI.success", statusCode |-> statusCode,
                   data |-> data]

\* wx.request success callback of callChatAPI
ChatSuccess ==
  \E i \in 1..Len(tasks), statusCode \in StatusCodes :
    \E data \in (IF statusCode = StatusOK THEN ChatData ELSE {ErrorBody}) :
      /\ tasks[i].pc = "callChatAPI"
      /\ IF statusCode = StatusOK THEN ChatResolved(i, data) ELSE CatchError(i)
      /\ event' = [name |-> "callChatAPI.success", statusCode |-> statusCode,
                   data |-> data]

\* wx.request fail callback of callChatAPI
ChatFail ==
  \E i \in 1..Len(tasks) :
    /\ tasks[i].pc = "callChatAPI"
    /\ CatchError(i)
    /\ event' = [name |-> "callChatAPI.fail"]

\* wx.request success callback of getImages
ImagesSuccess ==
  \E i \in 1..Len(tasks), statusCode \in StatusCodes :
    /\ tasks[i].pc = "getImages"
    /\ LET code == tasks[i].acupoints[Len(tasks[i].results) + 1].code
       IN  \E data \in (IF statusCode = StatusOK THEN ImageData(code)
                                                 ELSE {ErrorBody}) :
             /\ ImagesResolved(i, IF statusCode = StatusOK THEN data ELSE NoImages)
             /\ event' = [name |-> "getImages.success",
                          statusCode |-> statusCode, data |-> data]

\* mutant: a failed fetch escapes loadAcupointImages and reaches the catch
\* block of sendMessage
ImagesFailAborts ==
  \E i \in 1..Len(tasks) :
    /\ tasks[i].pc = "getImages"
    /\ CatchError(i)
    /\ event' = [name |-> "getImages.fail"]

\* wx.request fail callback of getImages
ImagesFail ==
  \E i \in 1..Len(tasks) :
    /\ tasks[i].pc = "getImages"
    /\ ImagesResolved(i, NoImages)
    /\ event' = [name |-> "getImages.fail"]

(* ----------------------------- detail page ---------------------------- *)

\* options of onLoad: no code, an empty code, a code
DetailOptions ==
  { [scene |-> "share"], [code |-> ""] } \cup
  { [code |-> Codes[k]] : k \in 1..Len(Codes) }

\* bodies of GET /acupoint/{code}
DetailData(code) ==
  { [success |-> FALSE],
    [success |-> TRUE,
     acupoint |-> [code |-> code, chinese_name |-> <<"he gu">>]],
    [success |-> TRUE, acupoint |-> [code |-> code, chinese_name |-> <<>>]],
    [success |-> TRUE, acupoint |-> [code |-> code]] }

\* bodies of GET /images/{code} as the detail page may get them
DetailImageData(code) == ImageData(code) \cup { NoImages }

\* loadAcupoint suspended in `await this.request(url)`
AwaitingRequest(path, code) == [pc |-> "request", path |-> path, code |-> code]

\* loadAcupoint is over, or was never called
DetailDone == [pc |-> "done"]

\* detailRes.acupoint.chinese_name || code
TitleOf(detailRes, code) ==
  IF GetOrEmpty(detailRes.acupoint, "chinese_name") # <<>>
  THEN detailRes.acupoint.chinese_name
  ELSE <<code>>

\* imgRes.images.map(img => `${apiBase}${img}`)
DetailImageUrls(imgRes) ==
  [k \in 1..Len(imgRes.images) |-> ImageUrl(imgRes.images[k])]

\* onLoad(options)
DetailOnLoad ==
  \E options \in DetailOptions :
    /\ detailTask.pc = "onLoad"
    /\ detailTask' = IF Has(options, "code") /\ options.code # ""
                     THEN AwaitingRequest("/acupoint/", options.code)
                     ELSE DetailDone
    /\ event' = [name |-> "detail.onLoad", options |-> options]
    /\ UNCHANGED <<acupoint, images, navigationBarTitle, toast>>
    /\ UNCHANGED indexVars

\* loadAcupoint after the detail request resolved with detailRes
DetailResolved(detailRes) ==
  /\ IF NotSuccess(detailRes)
     THEN UNCHANGED <<acupoint, navigationBarTitle>>
     ELSE /\ acupoint' = detailRes.acupoint
          /\ navigationBarTitle' = TitleOf(detailRes, detailTask.code)
  /\ detailTask' = AwaitingRequest("/images/", detailTask.code)
  /\ UNCHANGED <<images, toast>>

\* loadAcupoint after the image request resolved with imgRes
DetailImagesResolved(imgRes) ==
  /\ images' = IF Has(imgRes, "images") THEN DetailImageUrls(imgRes) ELSE images
  /\ detailTask' = DetailDone
  /\ UNCHANGED <<acupoint, navigationBarTitle, toast>>

\* wx.request success callback of request: resolve(res.data)
DetailRequestSuccess ==
  \E statusCode \in StatusCodes :
    /\ detailTask.pc = "request"
    /\ \E data \in (IF detailTask.path = "/acupoint/"
                    THEN DetailData(detailTask.code)
                    ELSE DetailImageData(detailTask.code)) :
         /\ IF detailTask.path = "/acupoint/"
            THEN DetailResolved(data)
            ELSE DetailImagesResolved(data)
         /\ event' = [name |-> "detail.request.success",
                      path |-> detailTask.path, statusCode |-> statusCode,
                      data |-> data]
    /\ UNCHANGED indexVars

\* mutant: a failed request resolves with an empty body instead of rejecting
DetailRequestFailResolves ==
  /\ detailTask.pc = "request"
  /\ IF detailTask.path = "/acupoint/"
     THEN DetailResolved(ErrorBody)
     ELSE DetailImagesResolved(ErrorBody)
  /\ event' = [name |-> "detail.request.fail", path |-> detailTask.path]
  /\ UNCHANGED indexVars

\* wx.request fail callback of request: reject, caught in loadAcupoint
DetailRequestFail ==
  /\ detailTask.pc = "request"
  /\ toast' = <<"load failed">>
  /\ detailTask' = DetailDone
  /\ event' = [name |-> "detail.request.fail", path |-> detailTask.path]
  /\ UNCHANGED <<acupoint, images, navigationBarTitle>>
  /\ UNCHANGED indexVars

\* the detail page at work, the conversation page idle
DetailNext ==
  \/ DetailOnLoad
  \/ DetailRequestSuccess
  \/ DetailRequestFail

DetailSpec == Init /\ [][DetailNext]_vars

(* ---------------------------- specification --------------------------- *)

\* the conversation page at work, the detail page not opened
Next ==
  \/ OnInputChange /\ UNCHANGED detailVars
  \/ OnQuickTap /\ UNCHANGED detailVars
  \/ SendMessage /\ UNCHANGED detailVars
  \/ ChatSuccess /\ UNCHANGED detailVars
  \/ ChatFail /\ UNCHANGED detailVars
  \/ ImagesSuccess /\ UNCHANGED detailVars
  \/ ImagesFail /\ UNCHANGED detailVars

Spec == Init /\ [][Next]_vars

\* the handlers and callbacks of Next, with the submissions capped lower
FairNext ==
  \/ OnInputChange /\ UNCHANGED detailVars
  \/ OnQuickTap /\ Submissions' <= MaxFairSubmissions /\ UNCHANGED detailVars
  \/ SendMessage /\ Submissions' <= MaxFairSubmissions /\ UNCHANGED detailVars
  \/ ChatSuccess /\ UNCHANGED detailVars
  \/ ChatFail /\ UNCHANGED detailVars
  \/ ImagesSuccess /\ UNCHANGED detailVars
  \/ ImagesFail /\ UNCHANGED detailVars

\* every issued request eventually invokes its success or fail callback
FairSpec ==
  /\ Init
  /\ [][FairNext]_vars
  /\ WF_vars((ChatSuccess \/ ChatFail) /\ UNCHANGED detailVars)
  /\ WF_vars((ImagesSuccess \/ ImagesFail) /\ UNCHANGED detailVars)

(* ------------------------------- claims ------------------------------- *)

Last(seq) == seq[Len(seq)]

Front(seq) == SubSeq(seq, 1, Len(seq) - 1)

LoadingIndexes == { k \in 1..Len(messages) : TypeOf(messages[k]) = "loading" }

\* the step appends a user message and a loading message to a log without one
AcceptStep ==
  /\ LoadingIndexes = {}
  /\ Len(messages') = Len(messages) + 2
  /\ SubSeq(messages', 1, Len(messages)) = messages
  /\ messages'[Len(messages) + 1].isUser
  /\ ~messages'[Len(messages) + 2].isUser
  /\ TypeOf(messages'[Len(messages) + 2]) = "loading"

\* the step replaces the loading message that ends the log by one terminal
\* assistant message
TerminalStep ==
  /\ messages # <<>>
  /\ TypeOf(Last(messages)) = "loading"
  /\ Len(messages') = Len(messages)
  /\ Front(messages') = Front(messages)
  /\ ~Last(messages').isUser
  /\ TypeOf(Last(messages')) \in {"text", "diagnosis"}

\* C1: a call of sendMessage while a submission is pending, or with a draft
\* that is empty once trimmed, changes none of messages, messageId, sending,
\* inputValue and issues no request (from onQuickTap: inputValue keeps the
\* query onQuickTap has just set).
C1_RejectedSendIsNoOp ==
  [][ /\ (event'.name = "sendMessage" /\ (sending \/ Trim(inputValue) = <<>>))
         => UNCHANGED <<messages, messageId, sending, inputValue, tasks>>
      /\ (event'.name = "onQuickTap" /\ (sending \/ Trim(event'.query) = <<>>))
         => /\ UNCHANGED <<messages, messageId, sending, tasks>>
            /\ inputValue' = event'.query ]_vars

\* sendMessage has just been refused for the pending submission: its draft is
\* not blank, and an accepted call would have cleared it
C1_Witness ==
  /\ event.name = "sendMessage"
  /\ sending
  /\ Trim(inputValue) # <<>>
  /\ tasks # <<>>

\* C2: at most one /chat request is in flight, and sending is true while it is.
C2_OneChatInFlight ==
  /\ ChatInFlight <= 1
  /\ ChatInFlight = 1 => sending
  /\ Len(tasks) <= 1

\* a quick tap arrived while the /chat request was in flight
C2_Witness ==
  /\ ChatInFlight = 1
  /\ event.name = "onQuickTap"
  /\ inputValue = event.query

\* C3: the log changes only by append(User), append(Loading) at acceptance and
\* by remove(Loading), append(one terminal message) at the end of the
\* submission, in that order, on every branch.
C3_LoadingBracket ==
  [][ /\ messages' # messages => AcceptStep \/ TerminalStep
      /\ Len(tasks') > Len(tasks) => AcceptStep
      /\ Len(tasks') < Len(tasks) => TerminalStep ]_vars

\* two submissions are over: one ended by a diagnosis, one by the transport
\* failure text
C3_Witness ==
  /\ Len(messages) = 4
  /\ ~sending
  /\ TypeOf(messages[2]) = "diagnosis"
  /\ TypeOf(messages[4]) = "text"
  /\ messages[4].content = NetworkErrorText

\* C4: the log holds at most one loading message; it is then the last message
\* and sending is true; when sending is false there is none.
C4_OneLoadingLast ==
  /\ Cardinality(LoadingIndexes) <= 1
  /\ \A k \in LoadingIndexes : k = Len(messages) /\ sending
  /\ ~sending => LoadingIndexes = {}

\* the second submission's loading message, the first one's being gone
C4_Witness ==
  /\ Len(messages) = 4
  /\ LoadingIndexes = {4}
  /\ ImagesInFlight = 1

\* C5: every accepted submission finalizes when every request is answered:
\* sending = TRUE leads to sending = FALSE with no loading message.
C5_EventuallyFinalized == sending ~> (~sending /\ LoadingIndexes = {})

\* a submission waits for the images of its second point
C5_Witness ==
  /\ sending
  /\ ImagesInFlight = 1
  /\ Len(tasks[1].results) = 1

\* the effect of an accepted sendMessage on the log, the guard and the network
AcceptedEffect ==
  /\ messages' = messages \o
       << [id |-> messageId + 1, isUser |-> TRUE, content |-> Trim(inputValue)],
          [id |-> messageId + 2, isUser |-> FALSE, type |-> "loading"] >>
  /\ sending'
  /\ ChatInFlight' = ChatInFlight + 1

\* C6: the end of a submission, on any branch, leaves sending = FALSE, and a
\* sendMessage with a draft that is not blank is then accepted.
C6_UsableAfterCompletion ==
  [][ /\ Len(tasks') < Len(tasks) => ~sending' /\ tasks' = <<>>
      /\ (event'.name = "sendMessage" /\ tasks = <<>> /\ messages # <<>>
          /\ Trim(inputValue) # <<>>) => AcceptedEffect ]_vars

\* a second submission was accepted after the first ended in the transport
\* failure text
C6_Witness ==
  /\ Len(messages) = 4
  /\ event.name = "sendMessage"
  /\ ChatInFlight = 1
  /\ TypeOf(messages[2]) = "text"
  /\ messages[2].content = NetworkErrorText

\* C7: the log alternates user message, assistant message; the last user
\* message is followed by exactly one assistant message, the loading
\* placeholder or the terminal response.
C7_Alternation ==
  /\ Len(messages) % 2 = 0
  /\ \A k \in 1..Len(messages) :
       IF k % 2 = 1
       THEN messages[k].isUser
       ELSE /\ ~messages[k].isUser
            /\ TypeOf(messages[k]) \in {"loading", "text", "diagnosis"}

\* two submissions are over, the second ended by a diagnosis
C7_Witness ==
  /\ Len(messages) = 4
  /\ tasks = <<>>
  /\ TypeOf(messages[4]) = "diagnosis"
  /\ Len(messages[4].acupoints) = MaxPoints

IdsOrdered ==
  /\ \A k \in 1..Len(messages) : messages[k].id <= messageId
  /\ \A k \in 1..(Len(messages) - 1) : messages[k].id < messages[k + 1].id

\* every message the step puts into the log has an id above every id handed
\* out before, and the terminal message's id is above the loading message's
FreshIds ==
  /\ messageId' >= messageId
  /\ \A k \in 1..Len(messages') :
       (k > Len(messages) \/ messages'[k] # messages[k])
          => messages'[k].id > messageId
  /\ (Len(tasks') < Len(tasks) /\ messages # <<>>)
        => Last(messages').id > Last(messages).id

\* C8: ids in the log are strictly increasing and at most messageId; ids are
\* never reused, a removed loading message's included.
C8_UniqueIds == []IdsOrdered /\ [][FreshIds]_vars

\* two submissions are over: ids 1, 3, 4, 6 with 2 and 5 used up by the
\* loading messages
C8_Witness ==
  /\ Len(messages) = 4
  /\ ~sending
  /\ messageId = 6
  /\ messages[4].id = 6

\* the response the ending call had received from /chat
ResponseOfEndingCall ==
  IF tasks[1].pc = "callChatAPI" THEN event'.data ELSE tasks[1].res

\* resolved is points with an images field added to each
IsResolutionOf(resolved, points) ==
  /\ Len(resolved) = Len(points)
  /\ \A k \in 1..Len(points) :
       /\ "images" \in DOMAIN resolved[k]
       /\ \A f \in DOMAIN points[k] : resolved[k][f] = points[k][f]

Contains(text, part) ==
  \E a \in 0..Len(text) : SubSeq(text, a + 1, a + Len(part)) = part

\* the diagnosis message m is the one the claim describes for response res
DiagnosisByMode(m, res) ==
  IF "mode" \in DOMAIN res /\ res.mode = "llm"
  THEN /\ m.llmResponse =
            (IF "llm_response" \in DOMAIN res THEN res.llm_response ELSE Undefined)
       /\ m.title = <<>>
       /\ m.disclaimer = <<>>
       /\ IsResolutionOf(m.acupoints,
            IF "recommended_acupoints" \in DOMAIN res
            THEN res.recommended_acupoints ELSE <<>>)
  ELSE /\ "diagnosis" \in DOMAIN res
       /\ Contains(m.title, res.diagnosis.symptom)
       /\ m.disclaimer =
            (IF "disclaimer" \in DOMAIN res.diagnosis
             THEN res.diagnosis.disclaimer ELSE <<>>)
       /\ m.llmResponse = <<>>
       /\ IsResolutionOf(m.acupoints,
            IF "acupoints" \in DOMAIN res.diagnosis
            THEN res.diagnosis.acupoints ELSE <<>>)

\* C9: the terminal diagnosis message is built by mode: llm gives llmResponse
\* from llm_response, empty title and disclaimer, points from
\* recommended_acupoints; any other or no mode gives a title holding the
\* symptom, the payload's disclaimer, empty llmResponse, points from
\* diagnosis.acupoints.
C9_DiagnosisByMode ==
  [][ (Len(tasks) = 1 /\ tasks' = <<>> /\ TypeOf(Last(messages')) = "diagnosis")
        => DiagnosisByMode(Last(messages'), ResponseOfEndingCall) ]_vars

\* the log holds a free-text diagnosis and a keyword diagnosis
C9_Witness ==
  /\ Len(messages) = 4
  /\ tasks = <<>>
  /\ TypeOf(messages[2]) = "diagnosis"
  /\ messages[2].llmResponse = <<"text">>
  /\ Len(messages[2].acupoints) = MaxPoints
  /\ TypeOf(messages[4]) = "diagnosis"
  /\ messages[4].disclaimer = <<"D">>
  /\ Len(messages[4].acupoints) = 1

\* the /chat call failed at transport level in this step
TransportFailure ==
  \/ event'.name = "callChatAPI.fail"
  \/ event'.name = "callChatAPI.success" /\ event'.statusCode # StatusOK

\* C10: a /chat response with status 200 and success = true ends in a
\* diagnosis message whatever fields it carries; the fixed transport failure
\* text ends a submission only when the /chat call failed at transport level.
C10_SuccessEndsInDiagnosis ==
  [][ (Len(tasks) = 1 /\ tasks' = <<>>)
        => /\ (~TransportFailure /\ ResponseOfEndingCall.success)
                 => TypeOf(Last(messages')) = "diagnosis"
           /\ (TypeOf(Last(messages')) = "text"
               /\ Last(messages').content = NetworkErrorText)
                 => TransportFailure ]_vars

\* the step ends the one pending call with the plain-text assistant message
\* of the given content, issues no further request and clears the guard
EndsInText(content) ==
  /\ Len(tasks) = 1
  /\ tasks' = <<>>
  /\ ~sending'
  /\ Len(messages') = Len(messages)
  /\ Front(messages') = Front(messages)
  /\ TypeOf(Last(messages)) = "loading"
  /\ Last(messages') =
       [id |-> Last(messages).id + 1, isUser |-> FALSE, type |-> "text",
        content |-> content]

\* C11: a /chat response with success = false ends the submission with a
\* plain-text assistant message holding the server's message when it supplies
\* one (not empty), the fixed fallback text otherwise; no image fetch is
\* issued and sending is cleared.
C11_SoftFailureText ==
  [][ (event'.name = "callChatAPI.success" /\ event'.statusCode = 200
       /\ ~event'.data.success)
        => /\ EndsInText(IF "message" \in DOMAIN event'.data
                            /\ event'.data.message # <<>>
                         THEN event'.data.message
                         ELSE FallbackText)
           /\ Last(messages').content # <<>>
           /\ Last(messages').content # Undefined ]_vars

\* {success: false} without a message has just been answered by the fallback
C11_Witness ==
  /\ event.name = "callChatAPI.success"
  /\ event.statusCode = 200
  /\ ~event.data.success
  /\ "message" \notin DOMAIN event.data
  /\ tasks = <<>>
  /\ Last(messages).content = FallbackText

\* C12: when the /chat call fails at transport level (fail callback, or a
\* status other than 200) the loading message is removed, the fixed 'cannot
\* reach server' text is appended, no image fetch is issued and sending is
\* cleared.
C12_TransportFailureText ==
  [][ (\/ event'.name = "callChatAPI.fail"
       \/ event'.name = "callChatAPI.success" /\ event'.statusCode # 200)
        => EndsInText(NetworkErrorText) ]_vars

\* a /chat answer with status 500 has just ended the second submission
C12_Witness ==
  /\ event.name = "callChatAPI.success"
  /\ event.statusCode # 200
  /\ Len(messages) = 4
  /\ tasks = <<>>
  /\ ~sending
  /\ Last(messages).content = NetworkErrorText

\* the step is a callback of the image fetch of the one pending call
ImageStep ==
  /\ event'.name \in {"getImages.success", "getImages.fail"}
  /\ Len(tasks) = 1
  /\ tasks[1].pc = "getImages"

\* the image fetch answered in this step failed
ImageFetchFailed ==
  \/ event'.name = "getImages.fail"
  \/ event'.name = "getImages.success" /\ event'.statusCode # 200

\* the image paths the fetch answered in this step returned
FetchedPaths ==
  IF ImageFetchFailed \/ "images" \notin DOMAIN event'.data
  THEN <<>>
  ELSE event'.data.images

\* the resolved points after the step: in the diagnosis message when the loop
\* is over, else in the suspended call
ResultsAfter ==
  IF tasks' = <<>> THEN Last(messages').acupoints ELSE tasks'[1].results

\* C13: loadAcupointImages resolves the points one by one in input order: the
\* point resolved in a step keeps its fields and gains images, [] when its
\* fetch failed and paths of its own fetch otherwise; the points resolved
\* before are untouched; the loop ends exactly with the last input point.
C13_ResolveKeepsOrder ==
  [][ ImageStep =>
        LET t == tasks[1]
            k == Len(t.results) + 1
            r == ResultsAfter
        IN  /\ (tasks' = <<>>) <=> (k = Len(t.acupoints))
            /\ tasks' # <<>> => tasks'[1].acupoints = t.acupoints
            /\ Len(r) = k
            /\ SubSeq(r, 1, k - 1) = t.results
            /\ DOMAIN r[k] = DOMAIN t.acupoints[k] \cup {"images"}
            /\ \A f \in DOMAIN t.acupoints[k] : r[k][f] = t.acupoints[k][f]
            /\ ImageFetchFailed => r[k].images = <<>>
            /\ (r[k].images = <<>>) <=> (FetchedPaths = <<>>)
            /\ \A j \in 1..Len(r[k].images) :
                 \E p \in 1..Len(FetchedPaths) :
                   r[k].images[j] = <<"apiBase">> \o FetchedPaths[p] ]_vars

\* a diagnosis whose first point lost its images and whose last point has
\* them, the points in input order
C13_Witness ==
  /\ tasks = <<>>
  /\ messages # <<>>
  /\ TypeOf(Last(messages)) = "diagnosis"
  /\ Len(Last(messages).acupoints) = MaxPoints
  /\ \A k \in 1..MaxPoints : Last(messages).acupoints[k].code = Codes[k]
  /\ Last(messages).acupoints[1].images = <<>>
  /\ Last(messages).acupoints[MaxPoints].images # <<>>

\* every point of every diagnosis message of the log has at most 6 images
ImagesCapped ==
  \A k \in 1..Len(messages) :
    TypeOf(messages[k]) = "diagnosis" =>
      \A p \in 1..Len(messages[k].acupoints) :
        Len(messages[k].acupoints[p].images) <= 6

\* the images of the point resolved in the step are the first min(6, n) of
\* the n paths its fetch returned, in that order, each behind the API base
ImagesFromFetch ==
  ImageStep =>
    LET n == Len(FetchedPaths)
        kept == IF n < 6 THEN n ELSE 6
    IN  ResultsAfter[Len(tasks[1].results) + 1].images =
          [j \in 1..kept |-> <<"apiBase">> \o FetchedPaths[j]]

\* C14: every point of a diagnosis message has 0 to 6 images: the first
\* min(6, n) of the n paths its fetch returned, in server order, each
\* prefixed with the API base.
C14_ImageCap == []ImagesCapped /\ [][ImagesFromFetch]_vars

\* the first point's fetch returned MaxImages paths, its first six are kept
C14_Witness ==
  /\ tasks = <<>>
  /\ messages # <<>>
  /\ TypeOf(Last(messages)) = "diagnosis"
  /\ Last(messages).acupoints # <<>>
  /\ Len(Last(messages).acupoints[1].images) = 6
  /\ MaxImages > 6
  /\ \A j \in 1..6 :
       Last(messages).acupoints[1].images[j] =
         <<"apiBase", "/images/", Codes[1], MaxImages + 1 - j>>

\* C15: whatever image fetches fail, a call that waits for images ends in the
\* diagnosis message with one resolved point per recommended point; until
\* then the log is unchanged, and no error message is appended.
C15_ImageFailuresIsolated ==
  [][ (Len(tasks) = 1 /\ tasks[1].pc = "getImages") =>
        IF tasks' = <<>>
        THEN /\ Len(messages') = Len(messages)
             /\ Front(messages') = Front(messages)
             /\ TypeOf(Last(messages')) = "diagnosis"
             /\ Len(Last(messages').acupoints) = Len(tasks[1].acupoints)
             /\ \A k \in 1..Len(tasks[1].acupoints) :
                  Last(messages').acupoints[k].code = tasks[1].acupoints[k].code
        ELSE /\ messages' = messages
             /\ tasks'[1].pc = "getImages" ]_vars

\* every fetch failed and the diagnosis is there, all its points without
\* images
C15_Witness ==
  /\ event.name = "getImages.fail"
  /\ tasks = <<>>
  /\ TypeOf(Last(messages)) = "diagnosis"
  /\ Len(Last(messages).acupoints) = MaxPoints
  /\ \A k \in 1..MaxPoints : Last(messages).acupoints[k].images = <<>>

\* the messages of a log that are no loading placeholder
NonLoading(msgs) ==
  SelectSeq(msgs, LAMBDA m : ~("type" \in DOMAIN m /\ m.type = "loading"))

\* C16: apart from the removal of the loading placeholder the log only grows:
\* the non-loading messages before a step are a prefix of those after it,
\* unchanged and in the same order.
C16_AppendOnly ==
  [][ /\ Len(NonLoading(messages')) >= Len(NonLoading(messages))
      /\ SubSeq(NonLoading(messages'), 1, Len(NonLoading(messages)))
           = NonLoading(messages) ]_vars

\* the second submission ended in a diagnosis and the first one's fallback
\* text is still in the log
C16_Witness ==
  /\ Len(messages) = 4
  /\ tasks = <<>>
  /\ messages[1].isUser
  /\ TypeOf(messages[2]) = "text"
  /\ messages[2].content = FallbackText
  /\ TypeOf(messages[4]) = "diagnosis"

Blank(text) == \A k \in 1..Len(text) : text[k] \in {" ", "\n"}

\* trimmed is draft without its leading and trailing blanks
IsTrimOf(trimmed, draft) ==
  /\ trimmed # <<>> => ~Blank(<<trimmed[1]>>) /\ ~Blank(<<trimmed[Len(trimmed)]>>)
  /\ \E a \in 0..Len(draft) :
       /\ SubSeq(draft, a + 1, a + Len(trimmed)) = trimmed
       /\ a + Len(trimmed) <= Len(draft)
       /\ Blank(SubSeq(draft, 1, a))
       /\ Blank(SubSeq(draft, a + Len(trimmed) + 1, Len(draft)))

\* C17: an accepted sendMessage, in one step, sets sending, appends a user
\* message holding the trimmed draft and a loading message, clears inputValue
\* and issues the /chat request with that same trimmed text.
C17_AcceptedSubmission ==
  [][ (event'.name = "sendMessage" /\ ~sending /\ ~Blank(inputValue)) =>
        LET n == Len(messages)
        IN  /\ sending'
            /\ inputValue' = <<>>
            /\ Len(messages') = n + 2
            /\ SubSeq(messages', 1, n) = messages
            /\ messages'[n + 1].isUser
            /\ IsTrimOf(messages'[n + 1].content, inputValue)
            /\ messages'[n + 2] =
                 [id |-> messages'[n + 1].id + 1, isUser |-> FALSE,
                  type |-> "loading"]
            /\ Len(tasks') = Len(tasks) + 1
            /\ Last(tasks').pc = "callChatAPI"
            /\ Last(tasks').message = messages'[n + 1].content ]_vars

\* the padded draft has just been submitted: the request and the user
\* message carry the bare word
C17_Witness ==
  /\ event.name = "sendMessage"
  /\ Len(messages) = 2
  /\ messages[1].content = <<"a">>
  /\ ChatInFlight = 1
  /\ tasks[1].message = <<"a">>
  /\ inputValue = <<>>

\* C18: a quick tap sets the draft to the preset query and submits: accepted
\* when nothing is pending, the user message holding the query; with a
\* submission pending nothing is appended or requested, messageId and sending
\* are unchanged, and inputValue is left set to the query.
C18_QuickTap ==
  [][ event'.name = "onQuickTap" =>
        IF sending
        THEN /\ UNCHANGED <<messages, messageId, sending, tasks>>
             /\ inputValue' = event'.query
        ELSE /\ Len(messages') = Len(messages) + 2
             /\ SubSeq(messages', 1, Len(messages)) = messages
             /\ messages'[Len(messages) + 1].isUser
             /\ messages'[Len(messages) + 1].content = event'.query
             /\ TypeOf(Last(messages')) = "loading"
             /\ sending'
             /\ Len(tasks') = Len(tasks) + 1
             /\ Last(tasks').message = event'.query ]_vars

\* a quick tap during the image fetches of a pending submission left the
\* query in the draft
C18_Witness ==
  /\ event.name = "onQuickTap"
  /\ sending
  /\ ImagesInFlight = 1
  /\ inputValue = event.query
  /\ Len(messages) = 2

\* the points a success response recommends
RecommendedOf(res) ==
  IF "mode" \in DOMAIN res /\ res.mode = "llm"
  THEN (IF "recommended_acupoints" \in DOMAIN res
        THEN res.recommended_acupoints ELSE <<>>)
  ELSE (IF "acupoints" \in DOMAIN res.diagnosis
        THEN res.diagnosis.acupoints ELSE <<>>)

\* at most one image fetch is in flight; it belongs to a success response, is
\* for the first point not yet resolved, the points before it being resolved
\* in input order, and the log still ends with the loading message
FetchingInOrder ==
  /\ ImagesInFlight <= 1
  /\ \A i \in 1..Len(tasks) :
       tasks[i].pc = "getImages" =>
         /\ tasks[i].res.success
         /\ tasks[i].acupoints = RecommendedOf(tasks[i].res)
         /\ Len(tasks[i].results) < Len(tasks[i].acupoints)
         /\ \A j \in 1..Len(tasks[i].results) :
              tasks[i].results[j].code = tasks[i].acupoints[j].code
         /\ messages # <<>>
         /\ TypeOf(Last(messages)) = "loading"

\* the first fetch follows a success response, the next one the answer to the
\* one before; nothing else moves the loop; a pending call leaves the log
\* alone, and its end leaves the draft alone
FetchingSteps ==
  /\ (ImagesInFlight = 0 /\ ImagesInFlight' = 1)
        => /\ event'.name = "callChatAPI.success"
           /\ event'.statusCode = 200
           /\ event'.data.success
           /\ tasks'[1].results = <<>>
  /\ ImageStep
        => /\ (tasks' = <<>>) <=> (Len(tasks[1].results) + 1 = Len(tasks[1].acupoints))
           /\ tasks' # <<>> => Len(tasks'[1].results) = Len(tasks[1].results) + 1
  /\ (ImagesInFlight = 1
      /\ event'.name \notin {"getImages.success", "getImages.fail"})
        => tasks' = tasks
  /\ (tasks # <<>> /\ tasks' # <<>>) => messages' = messages
  /\ Len(tasks') < Len(tasks) => inputValue' = inputValue

\* C19: image fetches are issued only after a success response, one per
\* recommended point, in input order and one at a time; until the last point
\* is resolved the log is unchanged and ends with the loading message; the
\* end of the submission leaves the draft typed meanwhile unchanged.
C19_SequentialFetches == []FetchingInOrder /\ [][FetchingSteps]_vars

\* the last image answer has just ended a submission and the draft typed
\* meanwhile is still there
C19_Witness ==
  /\ event.name \in {"getImages.success", "getImages.fail"}
  /\ tasks = <<>>
  /\ inputValue = <<" ", "a", " ">>
  /\ TypeOf(Last(messages)) = "diagnosis"
  /\ Len(Last(messages).acupoints) = MaxPoints

\* the request loadAcupoint waits for is the one to the given path
Requesting(task, path) == task.pc = "request" /\ task.path = path

\* the detail request is the first one, and while it is out nothing is loaded
DetailFirst ==
  Requesting(detailTask, "/acupoint/") => acupoint = <<>> /\ images = <<>>

\* onLoad without a code issues nothing, with a code the detail request; the
\* image request follows an answer to the detail request, success = false
\* included; a failed detail request ends the load with nothing loaded
DetailSteps ==
  /\ event'.name = "detail.onLoad" =>
       IF "code" \in DOMAIN event'.options /\ event'.options.code # ""
       THEN /\ Requesting(detailTask', "/acupoint/")
            /\ detailTask'.code = event'.options.code
       ELSE detailTask'.pc = "done" /\ UNCHANGED <<acupoint, images>>
  /\ (Requesting(detailTask', "/images/") /\ ~Requesting(detailTask, "/images/"))
       => /\ Requesting(detailTask, "/acupoint/")
          /\ event'.name = "detail.request.success"
          /\ detailTask'.code = detailTask.code
  /\ (Requesting(detailTask, "/acupoint/")
      /\ event'.name = "detail.request.success" /\ ~event'.data.success)
       => Requesting(detailTask', "/images/") /\ acupoint' = acupoint
  /\ (Requesting(detailTask, "/acupoint/") /\ event'.name = "detail.request.fail")
       => /\ detailTask'.pc = "done"
          /\ acupoint' = <<>>
          /\ images' = <<>>
  /\ detailTask.pc = "done" => UNCHANGED <<detailTask, acupoint, images>>

\* C20: in the detail view no request is issued without a code; with one the
\* detail request comes first and the image request only after its answer,
\* an answer with success = false included; a transport failure of the
\* detail request means no image request, acupoint and images staying empty.
C20_DetailThenImages == []DetailFirst /\ [][DetailSteps]_vars

\* the detail request failed: the load is over with nothing loaded
C20_Witness ==
  /\ event.name = "detail.request.fail"
  /\ event.path = "/acupoint/"
  /\ detailTask.pc = "done"
  /\ acupoint = <<>>
  /\ images = <<>>
  /\ toast # <<>>

====
